---- MODULE Spec2Model ----
(***************************************************************************)
(* Model of mb-tile-generator.py: the LayoutEditor's layout matrix, its    *)
(* Rows/Cols spinbox variables, the matrix of displayed cell canvases and  *)
(* the handlers that change them.                                          *)
(*                                                                         *)
(* Cell coordinates i, j are 0-based as in the Python code; a TLA+ sequence*)
(* is 1-based, so the cell (i, j) of a matrix m is m[i+1][j+1].            *)
(***************************************************************************)
EXTENDS Integers, Sequences, FiniteSets, TLC

VARIABLES
    pc,            \* "init": __init__ has run up to line 181; "ready": the main loop runs
    layout,        \* self.layout: list of lists of abbreviations
    rows,          \* text held by the Rows spinbox variable (self.rows)
    cols,          \* text held by the Cols spinbox variable (self.cols)
    canvases,      \* self._canvases: for each cell widget, the abbreviation last drawn on it
    last_clicked,  \* self._last_clicked: <<>> for None, else <<i, j>>
    palette,       \* the open (modal) palette popup: <<>> when closed, else the <<i, j>> it was opened for
    lastOp,        \* name of the handler that ran last
    lastCell,      \* the cell <<i, j>> that handler worked on (<<>> when it works on none)
    lastArg,       \* the abbreviation that handler was called with ("" when it takes none)
    outcome,       \* how that handler ended: "ok", a message box it showed, or the exception that left it
    steps          \* number of handlers run so far

vars == <<pc, layout, rows, cols, canvases, last_clicked, palette, lastOp, lastCell, lastArg, outcome, steps>>

----------------------------------------------------------------------------
(* Bounds of the model *)

\* largest value typed into (or reached by the arrows of) a spinbox
MaxDim == 3
\* number of handlers run in one behaviour
MaxSteps == 4
\* largest grid the presets are applied to in SpecPreset
MaxGrid == 4

----------------------------------------------------------------------------
(* Constants of the program *)

ABBREVS == <<"O", "R", "L", "BR", "BL", "TR", "TL", "B", "T", "X">>

AbbrevSet == {ABBREVS[k] : k \in 1..Len(ABBREVS)}

\* the spinboxes' from_ and to
SpinFrom == 1
SpinTo == 50

\* the palette popup's icons
ordered == <<"TL", "T", "TR", "L", "O", "R", "BL", "B", "BR", "X">>

\* the icons of the palette clicked in the model
PaletteInputs == {"TL", "X"}

\* the presets popup's icons
desired_abbrs == <<"LTR", "LT", "T", "TR",
                   "LR", "L", "O", "R",
                   "LBR", "BL", "B", "BR",
                   "X", "LTB", "BT", "TRB">>

Pat(t, b, l, r) == [top |-> t, bottom |-> b, left |-> l, right |-> r]

NoSides == Pat(FALSE, FALSE, FALSE, FALSE)

\* self._preset_patterns
preset_patterns ==
    [a \in {"LTR", "LT", "T", "TR", "LR", "L", "NONE", "R",
            "LBR", "LB", "B", "BR", "ALL", "LTB", "BT", "TRB"} |->
        CASE a = "LTR"  -> Pat(TRUE, FALSE, TRUE, TRUE)
          [] a = "LT"   -> Pat(TRUE, FALSE, TRUE, FALSE)
          [] a = "T"    -> Pat(TRUE, FALSE, FALSE, FALSE)
          [] a = "TR"   -> Pat(TRUE, FALSE, FALSE, TRUE)
          [] a = "LR"   -> Pat(FALSE, FALSE, TRUE, TRUE)
          [] a = "L"    -> Pat(FALSE, FALSE, TRUE, FALSE)
          [] a = "NONE" -> Pat(FALSE, FALSE, FALSE, FALSE)
          [] a = "R"    -> Pat(FALSE, FALSE, FALSE, TRUE)
          [] a = "LBR"  -> Pat(FALSE, TRUE, TRUE, TRUE)
          [] a = "LB"   -> Pat(FALSE, TRUE, TRUE, FALSE)
          [] a = "B"    -> Pat(FALSE, TRUE, FALSE, FALSE)
          [] a = "BR"   -> Pat(FALSE, TRUE, FALSE, TRUE)
          [] a = "ALL"  -> Pat(TRUE, TRUE, TRUE, TRUE)
          [] a = "LTB"  -> Pat(TRUE, TRUE, TRUE, FALSE)
          [] a = "BT"   -> Pat(TRUE, TRUE, FALSE, FALSE)
          [] a = "TRB"  -> Pat(TRUE, TRUE, FALSE, TRUE)]

\* pattern_lookup: self._presets keyed by abbreviation, a later entry replacing an earlier one
pattern_lookup ==
    [a \in {"O", "X", "T", "R", "B", "L", "TL", "TR", "BL", "BR"} |->
        CASE a = "O"  -> Pat(FALSE, FALSE, FALSE, FALSE)
          [] a = "X"  -> Pat(TRUE, TRUE, TRUE, TRUE)
          [] a = "T"  -> Pat(TRUE, FALSE, FALSE, FALSE)
          [] a = "R"  -> Pat(FALSE, FALSE, FALSE, TRUE)
          [] a = "B"  -> Pat(FALSE, TRUE, FALSE, FALSE)
          [] a = "L"  -> Pat(FALSE, FALSE, TRUE, TRUE)
          [] a = "TL" -> Pat(TRUE, TRUE, TRUE, FALSE)
          [] a = "TR" -> Pat(TRUE, TRUE, FALSE, TRUE)
          [] a = "BL" -> Pat(FALSE, TRUE, TRUE, FALSE)
          [] a = "BR" -> Pat(FALSE, TRUE, FALSE, TRUE)]

\* the pattern the presets popup binds to the icon of abbr
PresetPattern(abbr) ==
    IF abbr \in DOMAIN preset_patterns THEN preset_patterns[abbr]
    ELSE IF abbr \in DOMAIN pattern_lookup THEN pattern_lookup[abbr]
    ELSE NoSides

----------------------------------------------------------------------------
(* The spinbox variables hold text; IntVar.get() converts it *)

Digits == <<"0", "1", "2", "3", "4", "5", "6", "7", "8", "9">>

\* IntVar(value=n): the text of n
IntText(n) == Digits[n + 1]

IsIntText(t) == \E n \in 0..(Len(Digits) - 1) : Digits[n + 1] = t

\* IntVar.get() of a text that holds an integer
IntVarGet(t) == CHOOSE n \in 0..(Len(Digits) - 1) : Digits[n + 1] = t

\* what a user can type into a spinbox: a count, or something that is no integer
ControlTexts == {IntText(n) : n \in 0..MaxDim} \cup {""}

PositiveTexts == {IntText(n) : n \in 1..MaxDim}

----------------------------------------------------------------------------
(* Helpers on lists of lists *)

Max(a, b) == IF a >= b THEN a ELSE b
Min(a, b) == IF a <= b THEN a ELSE b

\* ['O'] * c
NormalRow(c) == [k \in 1..c |-> "O"]

\* lst[i][j] does not raise IndexError (i, j >= 0)
InRange(lay, i, j) == i < Len(lay) /\ j < Len(lay[i + 1])

\* lay[i][j] = a
SetCell(lay, i, j, a) == [lay EXCEPT ![i + 1][j + 1] = a]

\* while len(lay) <= i: lay.append(['O'] * c)
RECURSIVE AppendRows(_, _, _)
AppendRows(lay, i, c) ==
    IF Len(lay) <= i THEN AppendRows(Append(lay, NormalRow(c)), i, c) ELSE lay

\* AppendCells with the loop running one turn too long (len(lay[i]) <= j + 1)
RECURSIVE AppendCellsOneMore(_, _, _)
AppendCellsOneMore(lay, i, j) ==
    IF Len(lay[i + 1]) <= j + 1
    THEN AppendCellsOneMore([lay EXCEPT ![i + 1] = Append(@, "O")], i, j)
    ELSE lay

\* while len(lay[i]) <= j: lay[i].append('O')
RECURSIVE AppendCells(_, _, _)
AppendCells(lay, i, j) ==
    IF Len(lay[i + 1]) <= j
    THEN AppendCells([lay EXCEPT ![i + 1] = Append(@, "O")], i, j)
    ELSE lay

----------------------------------------------------------------------------
(* Loading: extract_layout_tokens and __init__ *)

\* The bracket groups of the LAYOUT block of the SCAD file, each with the tokens of
\* one or two capitals found in it: the texts the editor is started on.
LayoutTexts ==
    { <<>>,
      << <<>> >>,
      << <<"O">> >>,
      << <<"TL", "TR">>, <<"BL", "BR">> >>,
      << <<"TL", "T">>, <<"L">> >>,
      << <<"T">>, <<"L", "BR">> >>,
      << <<"T">>, <<"L", "LR">> >>,
      << <<"T">>, <<"L", "ZZ">> >>,
      << <<"LR", "O">>, <<>>, <<"O", "ZZ">> >> }

\* rows.append(tokens) only for a group that holds tokens
extract_layout_tokens(groups) == SelectSeq(groups, LAMBDA tokens : tokens # <<>>)

DefaultLayout == << <<"TL", "T", "TR">>, <<"L", "O", "R">>, <<"BL", "B", "BR">> >>

\* parsed, after "if not parsed"
Parsed(groups) ==
    IF extract_layout_tokens(groups) = <<>> THEN DefaultLayout
    ELSE extract_layout_tokens(groups)

----------------------------------------------------------------------------
(* _populate_grid *)

\* one turn of the inner loop: the cell's abbreviation is read (and normalised), or
\* the IndexError of the read is caught and the layout extended
PopulateCell(lay, i, j, c) ==
    IF InRange(lay, i, j)
    THEN IF lay[i + 1][j + 1] \in AbbrevSet THEN lay ELSE SetCell(lay, i, j, "O")
    ELSE SetCell(AppendCells(AppendRows(lay, i, c), i, j), i, j, "O")

\* the inner loop of row i from column j on; st = [layout, row_canv]. Each turn's
\* state is complete (row_canv holds j + 1 canvases) before the next turn starts
RECURSIVE PopulateRow(_, _, _, _)
PopulateRow(st, i, j, c) ==
    IF j >= c THEN st
    ELSE LET lay2 == PopulateCell(st.layout, i, j, c)
             turn == [layout |-> lay2,
                      row_canv |-> Append(st.row_canv, lay2[i + 1][j + 1])]
         IN  CASE Len(turn.row_canv) = j + 1 -> PopulateRow(turn, i, j + 1, c)

\* the outer loop from row i on; st = [layout, canvases]. Each turn's state is
\* complete (canvases holds i + 1 rows) before the next turn starts
RECURSIVE PopulateRows(_, _, _, _)
PopulateRows(st, i, r, c) ==
    IF i >= r THEN st
    ELSE LET done == PopulateRow([layout |-> st.layout, row_canv |-> <<>>], i, 0, c)
             turn == [layout |-> done.layout,
                      canvases |-> Append(st.canvases, done.row_canv)]
         IN  CASE Len(turn.canvases) = i + 1 -> PopulateRows(turn, i + 1, r, c)

\* _populate_grid() with rows.get() = r and cols.get() = c: [layout, canvases] after it
populate_grid(lay, r, c) == PopulateRows([layout |-> lay, canvases |-> <<>>], 0, r, c)

----------------------------------------------------------------------------
(* _apply_preset_to_all *)

\* NewAbbr with the edge tests placed before the corner tests
NewAbbrEdgesFirst(i, j, r, c, pattern) ==
    LET is_border == (i = 0) \/ (i = r - 1) \/ (j = 0) \/ (j = c - 1)
        is_top == (i = 0)
        is_bottom == (i = r - 1)
        is_left == (j = 0)
        is_right == (j = c - 1)
    IN  IF ~is_border THEN "O"
        ELSE IF is_top /\ pattern.top THEN "T"
        ELSE IF is_bottom /\ pattern.bottom THEN "B"
        ELSE IF is_left /\ pattern.left THEN "L"
        ELSE IF is_right /\ pattern.right THEN "R"
        ELSE IF is_top /\ is_left /\ pattern.top /\ pattern.left THEN "TL"
        ELSE IF is_top /\ is_right /\ pattern.top /\ pattern.right THEN "TR"
        ELSE IF is_bottom /\ is_left /\ pattern.bottom /\ pattern.left THEN "BL"
        ELSE IF is_bottom /\ is_right /\ pattern.bottom /\ pattern.right THEN "BR"
        ELSE "O"

\* NewAbbr with the cell's indices taken as 1-based (first row 1, last row r)
NewAbbrOneBased(i, j, r, c, pattern) ==
    LET is_border == (i = 1) \/ (i = r) \/ (j = 1) \/ (j = c)
        is_top == (i = 1)
        is_bottom == (i = r)
        is_left == (j = 1)
        is_right == (j = c)
    IN  IF ~is_border THEN "O"
        ELSE IF is_top /\ is_left /\ pattern.top /\ pattern.left THEN "TL"
        ELSE IF is_top /\ is_right /\ pattern.top /\ pattern.right THEN "TR"
        ELSE IF is_bottom /\ is_left /\ pattern.bottom /\ pattern.left THEN "BL"
        ELSE IF is_bottom /\ is_right /\ pattern.bottom /\ pattern.right THEN "BR"
        ELSE IF is_top /\ pattern.top THEN "T"
        ELSE IF is_bottom /\ pattern.bottom THEN "B"
        ELSE IF is_left /\ pattern.left THEN "L"
        ELSE IF is_right /\ pattern.right THEN "R"
        ELSE "O"

\* NewAbbr with the top-left corner rule not testing pattern.left
NewAbbrCornerIgnoresLeft(i, j, r, c, pattern) ==
    LET is_border == (i = 0) \/ (i = r - 1) \/ (j = 0) \/ (j = c - 1)
        is_top == (i = 0)
        is_bottom == (i = r - 1)
        is_left == (j = 0)
        is_right == (j = c - 1)
    IN  IF ~is_border THEN "O"
        ELSE IF is_top /\ is_left /\ pattern.top THEN "TL"
        ELSE IF is_top /\ is_right /\ pattern.top /\ pattern.right THEN "TR"
        ELSE IF is_bottom /\ is_left /\ pattern.bottom /\ pattern.left THEN "BL"
        ELSE IF is_bottom /\ is_right /\ pattern.bottom /\ pattern.right THEN "BR"
        ELSE IF is_top /\ pattern.top THEN "T"
        ELSE IF is_bottom /\ pattern.bottom THEN "B"
        ELSE IF is_left /\ pattern.left THEN "L"
        ELSE IF is_right /\ pattern.right THEN "R"
        ELSE "O"

\* NewAbbr with a grid of one row or one column having no bottom row and no right
\* column (its only row counts as the top, its only column as the left)
NewAbbrSingleLineOneSided(i, j, r, c, pattern) ==
    LET is_border == (i = 0) \/ (i = r - 1) \/ (j = 0) \/ (j = c - 1)
        is_top == (i = 0)
        is_bottom == (i = r - 1) /\ (r > 1)
        is_left == (j = 0)
        is_right == (j = c - 1) /\ (c > 1)
    IN  IF ~is_border THEN "O"
        ELSE IF is_top /\ is_left /\ pattern.top /\ pattern.left THEN "TL"
        ELSE IF is_top /\ is_right /\ pattern.top /\ pattern.right THEN "TR"
        ELSE IF is_bottom /\ is_left /\ pattern.bottom /\ pattern.left THEN "BL"
        ELSE IF is_bottom /\ is_right /\ pattern.bottom /\ pattern.right THEN "BR"
        ELSE IF is_top /\ pattern.top THEN "T"
        ELSE IF is_bottom /\ pattern.bottom THEN "B"
        ELSE IF is_left /\ pattern.left THEN "L"
        ELSE IF is_right /\ pattern.right THEN "R"
        ELSE "O"

\* NewAbbr with the right-edge rule yielding the token of the left-edge rule
NewAbbrRightAsLeft(i, j, r, c, pattern) ==
    LET is_border == (i = 0) \/ (i = r - 1) \/ (j = 0) \/ (j = c - 1)
        is_top == (i = 0)
        is_bottom == (i = r - 1)
        is_left == (j = 0)
        is_right == (j = c - 1)
    IN  IF ~is_border THEN "O"
        ELSE IF is_top /\ is_left /\ pattern.top /\ pattern.left THEN "TL"
        ELSE IF is_top /\ is_right /\ pattern.top /\ pattern.right THEN "TR"
        ELSE IF is_bottom /\ is_left /\ pattern.bottom /\ pattern.left THEN "BL"
        ELSE IF is_bottom /\ is_right /\ pattern.bottom /\ pattern.right THEN "BR"
        ELSE IF is_top /\ pattern.top THEN "T"
        ELSE IF is_bottom /\ pattern.bottom THEN "B"
        ELSE IF is_left /\ pattern.left THEN "L"
        ELSE IF is_right /\ pattern.right THEN "L"
        ELSE "O"

\* new_abbr for the cell (i, j) of an r x c grid
NewAbbr(i, j, r, c, pattern) ==
    LET is_border == (i = 0) \/ (i = r - 1) \/ (j = 0) \/ (j = c - 1)
        is_top == (i = 0)
        is_bottom == (i = r - 1)
        is_left == (j = 0)
        is_right == (j = c - 1)
    IN  IF ~is_border THEN "O"
        ELSE IF is_top /\ is_left /\ pattern.top /\ pattern.left THEN "TL"
        ELSE IF is_top /\ is_right /\ pattern.top /\ pattern.right THEN "TR"
        ELSE IF is_bottom /\ is_left /\ pattern.bottom /\ pattern.left THEN "BL"
        ELSE IF is_bottom /\ is_right /\ pattern.bottom /\ pattern.right THEN "BR"
        ELSE IF is_top /\ pattern.top THEN "T"
        ELSE IF is_bottom /\ pattern.bottom THEN "B"
        ELSE IF is_left /\ pattern.left THEN "L"
        ELSE IF is_right /\ pattern.right THEN "R"
        ELSE "O"

\* the body of the loops for the cell (i, j); st = [layout, canvases]
PresetCell(st, i, j, r, c, pattern) ==
    LET big == AppendCells(AppendRows(st.layout, i, c), i, j)
        new_abbr == NewAbbr(i, j, r, c, pattern)
    IN  [layout |-> SetCell(big, i, j, new_abbr),
         canvases |-> IF InRange(st.canvases, i, j)
                      THEN SetCell(st.canvases, i, j, new_abbr)
                      ELSE st.canvases]

\* the inner loop of row i from column j on; each turn leaves the cell (i, j) in
\* the layout before the next turn starts
RECURSIVE PresetRow(_, _, _, _, _, _)
PresetRow(st, i, j, r, c, pattern) ==
    IF j >= c THEN st
    ELSE LET turn == PresetCell(st, i, j, r, c, pattern)
         IN  CASE InRange(turn.layout, i, j) -> PresetRow(turn, i, j + 1, r, c, pattern)

\* the outer loop from row i on; each turn leaves row i in the layout before the
\* next turn starts
RECURSIVE PresetRows(_, _, _, _, _)
PresetRows(st, i, r, c, pattern) ==
    IF i >= r THEN st
    ELSE LET turn == PresetRow(st, i, 0, r, c, pattern)
         IN  CASE c <= 0 \/ Len(turn.layout) > i -> PresetRows(turn, i + 1, r, c, pattern)

\* _apply_preset_to_all with rows.get() = r and cols.get() = c: [layout, canvases] after it
apply_preset_to_all(lay, canv, r, c, pattern) ==
    PresetRows([layout |-> lay, canvases |-> canv], 0, r, c, pattern)

----------------------------------------------------------------------------
(* _on_shape_change *)

\* building "new" reads lay[i][j] of a row i shorter than row 0: IndexError
ResizeRaises(lay, r, c) ==
    \E i \in 0..(r - 1), j \in 0..(c - 1) :
        /\ i < Len(lay)
        /\ j < Len(lay[1])
        /\ j >= Len(lay[i + 1])

\* the list "new"
Resized(lay, r, c) ==
    [i \in 1..r |->
        [j \in 1..c |->
            IF (i - 1 < Len(lay)) /\ (j - 1 < Len(lay[1]))
            THEN lay[i][j]
            ELSE "O"]]

----------------------------------------------------------------------------
(* The state machine *)

\* __init__ up to the call of _populate_grid, on one of the layout texts
InitOn(texts) ==
    \E groups \in texts :
        /\ pc = "init"
        /\ layout = Parsed(groups)
        /\ rows = IntText(Len(Parsed(groups)))
        /\ cols = IntText(Len(Parsed(groups)[1]))
        /\ canvases = <<>>
        /\ last_clicked = <<>>
        /\ palette = <<>>
        /\ lastOp = "__init__"
        /\ lastCell = <<>>
        /\ lastArg = ""
        /\ outcome = "ok"
        /\ steps = 0

Init == InitOn(LayoutTexts)

\* a handler of the main window can run: construction is over, no modal popup is
\* open, and the behaviour has handlers left
Idle ==
    /\ pc = "ready"
    /\ palette = <<>>
    /\ steps < MaxSteps

\* the handler op has run on cell with arg
Did(op, cell, arg) ==
    /\ lastOp' = op
    /\ lastCell' = cell
    /\ lastArg' = arg
    /\ steps' = steps + 1

Ran(op, cell, arg, how) ==
    /\ Did(op, cell, arg)
    /\ outcome' = how

\* the last statement of __init__: self._populate_grid()
InitPopulate ==
    /\ pc = "init"
    /\ LET st == populate_grid(layout, IntVarGet(rows), IntVarGet(cols))
       IN  /\ layout' = st.layout
           /\ canvases' = st.canvases
    /\ pc' = "ready"
    /\ lastOp' = "_populate_grid"
    /\ UNCHANGED <<rows, cols, last_clicked, palette, lastCell, lastArg, outcome, steps>>

\* the user types t into the Rows spinbox: the variable changes, no command runs
TypeRows(t) ==
    /\ Idle
    /\ t # rows
    /\ rows' = t
    /\ Ran("type_rows", <<>>, "", "ok")
    /\ UNCHANGED <<pc, layout, cols, canvases, last_clicked, palette>>

TypeCols(t) ==
    /\ Idle
    /\ t # cols
    /\ cols' = t
    /\ Ran("type_cols", <<>>, "", "ok")
    /\ UNCHANGED <<pc, layout, rows, canvases, last_clicked, palette>>

\* _on_shape_change with the spinbox texts rt and ct
ShapeChange(rt, ct) ==
    IF ~IsIntText(rt) \/ ~IsIntText(ct)
    THEN /\ outcome' = "showerror"
         /\ UNCHANGED <<layout, canvases>>
    ELSE LET r == IntVarGet(rt)
             c == IntVarGet(ct)
         IN  IF ResizeRaises(layout, r, c)
             THEN /\ outcome' = "IndexError"
                  /\ UNCHANGED <<layout, canvases>>
             ELSE LET st == populate_grid(Resized(layout, r, c), r, c)
                  IN  /\ layout' = st.layout
                      /\ canvases' = st.canvases
                      /\ outcome' = "ok"

\* the refresh button
OnShapeChange ==
    /\ Idle
    /\ ShapeChange(rows, cols)
    /\ Did("_on_shape_change", <<>>, "")
    /\ UNCHANGED <<pc, rows, cols, last_clicked, palette>>

\* the value an arrow of a spinbox steps to from the text t
Stepped(t, d) == Max(SpinFrom, Min(SpinTo, IntVarGet(t) + d))

\* an arrow of the Rows spinbox: the value steps within from_..to, then the command runs
SpinRows(d) ==
    /\ Idle
    /\ IsIntText(rows)
    /\ Stepped(rows, d) <= MaxDim
    /\ rows' = IntText(Stepped(rows, d))
    /\ ShapeChange(rows', cols)
    /\ Did("_on_shape_change", <<>>, "")
    /\ UNCHANGED <<pc, cols, last_clicked, palette>>

SpinCols(d) ==
    /\ Idle
    /\ IsIntText(cols)
    /\ Stepped(cols, d) <= MaxDim
    /\ cols' = IntText(Stepped(cols, d))
    /\ ShapeChange(rows, cols')
    /\ Did("_on_shape_change", <<>>, "")
    /\ UNCHANGED <<pc, rows, last_clicked, palette>>

\* a click on the icon abbr of the presets popup: _apply_preset_to_all(abbr, pattern)
ApplyPresetToAll(abbr) ==
    /\ Idle
    /\ IF ~IsIntText(rows) \/ ~IsIntText(cols)
       THEN /\ outcome' = "TclError"
            /\ UNCHANGED <<layout, canvases>>
       ELSE LET st == apply_preset_to_all(layout, canvases, IntVarGet(rows),
                                          IntVarGet(cols), PresetPattern(abbr))
            IN  /\ layout' = st.layout
                /\ canvases' = st.canvases
                /\ outcome' = "ok"
    /\ Did("_apply_preset_to_all", <<>>, abbr)
    /\ UNCHANGED <<pc, rows, cols, last_clicked, palette>>

\* a click on the cell widget (i, j): _on_cell_click, then _open_palette
OnCellClick(i, j) ==
    /\ Idle
    /\ InRange(canvases, i, j)
    /\ last_clicked' = <<i, j>>
    /\ palette' = <<i, j>>
    /\ Ran("_on_cell_click", <<i, j>>, "", "ok")
    /\ UNCHANGED <<pc, layout, rows, cols, canvases>>

\* WriteCell with the IndexError of the write swallowed
WriteCellSwallow(i, j, abbr) ==
    IF InRange(layout, i, j)
    THEN /\ layout' = SetCell(layout, i, j, abbr)
         /\ canvases' = IF InRange(canvases, i, j)
                        THEN SetCell(canvases, i, j, abbr)
                        ELSE canvases
         /\ outcome' = "ok"
    ELSE /\ outcome' = "ok"
         /\ UNCHANGED <<layout, canvases>>

\* layout[i][j] = abbr and the redraw of the cell's canvas, as the per-cell handlers do it
WriteCell(i, j, abbr) ==
    IF InRange(layout, i, j)
    THEN /\ layout' = SetCell(layout, i, j, abbr)
         /\ canvases' = IF InRange(canvases, i, j)
                        THEN SetCell(canvases, i, j, abbr)
                        ELSE canvases
         /\ outcome' = "ok"
    ELSE /\ outcome' = "IndexError"
         /\ UNCHANGED <<layout, canvases>>

\* a click on the icon abbr of the open palette: _set_palette_choice
SetPaletteChoice(abbr) ==
    /\ pc = "ready"
    /\ palette # <<>>
    /\ WriteCell(palette[1], palette[2], abbr)
    /\ palette' = <<>>
    /\ Did("_set_palette_choice", palette, abbr)
    /\ UNCHANGED <<pc, rows, cols, last_clicked>>

\* the palette is closed without a choice
ClosePalette ==
    /\ pc = "ready"
    /\ palette # <<>>
    /\ palette' = <<>>
    /\ Ran("close_palette", <<>>, "", "ok")
    /\ UNCHANGED <<pc, layout, rows, cols, canvases, last_clicked>>

\* _apply_preset_to_selected(abbr)
ApplyPresetToSelected(abbr) ==
    /\ Idle
    /\ IF last_clicked = <<>>
       THEN /\ outcome' = "showinfo"
            /\ UNCHANGED <<layout, canvases>>
       ELSE WriteCell(last_clicked[1], last_clicked[2], abbr)
    /\ Did("_apply_preset_to_selected", last_clicked, abbr)
    /\ UNCHANGED <<pc, rows, cols, last_clicked, palette>>

\* the abbreviation after cur in ABBREVS (the first one's successor for an unknown cur)
NextAbbrev(cur) ==
    LET idx == IF cur \in AbbrevSet
               THEN (CHOOSE k \in 1..Len(ABBREVS) : ABBREVS[k] = cur) - 1
               ELSE 0
    IN  ABBREVS[((idx + 1) % Len(ABBREVS)) + 1]

\* _cycle_cell(i, j): the canvas is not redrawn, self._images does not exist
CycleCell(i, j) ==
    /\ Idle
    /\ IF InRange(layout, i, j)
       THEN /\ layout' = SetCell(layout, i, j, NextAbbrev(layout[i + 1][j + 1]))
            /\ outcome' = "ok"
       ELSE /\ outcome' = "IndexError"
            /\ UNCHANGED layout
    /\ Did("_cycle_cell", <<i, j>>, "")
    /\ UNCHANGED <<pc, rows, cols, canvases, last_clicked, palette>>

\* _gather_layout(): a copy of the layout
gather_layout(lay) == [i \in 1..Len(lay) |-> [j \in 1..Len(lay[i]) |-> lay[i][j]]]

\* the export button, up to the layout text it writes
ExportStl ==
    /\ Idle
    /\ layout' = gather_layout(layout)
    /\ Ran("_export_stl", <<>>, "", "ok")
    /\ UNCHANGED <<pc, rows, cols, canvases, last_clicked, palette>>

\* the handlers of the program
Handlers ==
    \/ InitPopulate
    \/ OnShapeChange
    \/ \E d \in {-1, 1} : SpinRows(d)
    \/ \E d \in {-1, 1} : SpinCols(d)
    \/ \E k \in 1..Len(desired_abbrs) : ApplyPresetToAll(desired_abbrs[k])
    \/ \E i \in 0..(MaxDim - 1), j \in 0..(MaxDim - 1) : OnCellClick(i, j)
    \/ \E k \in 1..Len(ordered) : ordered[k] \in PaletteInputs /\ SetPaletteChoice(ordered[k])
    \/ ClosePalette
    \/ \E abbr \in PaletteInputs : ApplyPresetToSelected(abbr)
    \/ \E i \in 0..(MaxDim - 1), j \in 0..(MaxDim - 1) : CycleCell(i, j)
    \/ ExportStl

Next ==
    \/ \E t \in ControlTexts : TypeRows(t)
    \/ \E t \in ControlTexts : TypeCols(t)
    \/ Handlers

Spec == Init /\ [][Next]_vars

\* The editor on well-formed input only: started on a layout text whose rows have the
\* same number of tokens, all of them known abbreviations, and with only positive
\* counts ever typed into the spinboxes
WellFormedTexts ==
    {groups \in LayoutTexts :
        \A i \in 1..Len(Parsed(groups)) :
            /\ Len(Parsed(groups)[i]) = Len(Parsed(groups)[1])
            /\ \A j \in 1..Len(Parsed(groups)[i]) : Parsed(groups)[i][j] \in AbbrevSet}

InitValid == InitOn(WellFormedTexts)

NextValid ==
    \/ \E t \in PositiveTexts : TypeRows(t)
    \/ \E t \in PositiveTexts : TypeCols(t)
    \/ Handlers

SpecValid == InitValid /\ [][NextValid]_vars

\* The editor started on a rectangular layout text of every size up to MaxGrid, all
\* of whose cells are SKIP, with presets applied to the grid as loaded
SkipGrid(r, c) == [i \in 1..r |-> [j \in 1..c |-> "X"]]

InitPreset ==
    \E r \in 1..MaxGrid, c \in 1..MaxGrid :
        /\ pc = "init"
        /\ layout = SkipGrid(r, c)
        /\ rows = IntText(r)
        /\ cols = IntText(c)
        /\ canvases = <<>>
        /\ last_clicked = <<>>
        /\ palette = <<>>
        /\ lastOp = "__init__"
        /\ lastCell = <<>>
        /\ lastArg = ""
        /\ outcome = "ok"
        /\ steps = 0

NextPreset ==
    \/ InitPopulate
    \/ \E k \in 1..Len(desired_abbrs) : ApplyPresetToAll(desired_abbrs[k])

SpecPreset == InitPreset /\ [][NextPreset]_vars

----------------------------------------------------------------------------
(* Vocabulary of the properties *)

\* the rows x cols the spinboxes show, when both hold integers
CtlRows == IntVarGet(rows)
CtlCols == IntVarGet(cols)

\* the bulk preset operation has just run to its end
AfterPreset == lastOp = "_apply_preset_to_all" /\ outcome = "ok"

\* the pattern it was run with
AppliedPattern == PresetPattern(lastArg)

\* The precedence list of the border resolution: rule k applies to the cell (i, j)
\* of a numRows x numCols grid when Rules[k].when holds
Rules(i, j, numRows, numCols, p) ==
    LET isTop == i = 0
        isBottom == i = numRows - 1
        isLeft == j = 0
        isRight == j = numCols - 1
    IN  << [when |-> isTop /\ isLeft /\ p.top /\ p.left,         token |-> "TL"],
           [when |-> isTop /\ isRight /\ p.top /\ p.right,       token |-> "TR"],
           [when |-> isBottom /\ isLeft /\ p.bottom /\ p.left,   token |-> "BL"],
           [when |-> isBottom /\ isRight /\ p.bottom /\ p.right, token |-> "BR"],
           [when |-> isTop /\ p.top,                             token |-> "T"],
           [when |-> isBottom /\ p.bottom,                       token |-> "B"],
           [when |-> isLeft /\ p.left,                           token |-> "L"],
           [when |-> isRight /\ p.right,                         token |-> "R"] >>

\* the token of the first rule that matches, NORMAL when none does
FirstMatch(i, j, numRows, numCols, p) ==
    LET rs == Rules(i, j, numRows, numCols, p)
        hits == {k \in 1..Len(rs) : rs[k].when}
    IN  IF hits = {} THEN "O"
        ELSE rs[CHOOSE k \in hits : \A m \in hits : k <= m].token

----------------------------------------------------------------------------
(* C1 *)

\* C1: for every grid size, every cell inside it and each of the 16 patterns, the
\* token the bulk preset operation writes for the cell is the token of the first rule
\* that matches in the precedence list TL, TR, BL, BR, top, bottom, left, right, else
\* NORMAL; a 1x1 grid with all four flags set gets TOP_LEFT_CORNER.
C1_PresetWritesFirstMatch ==
    AfterPreset =>
        \A i \in 0..(CtlRows - 1), j \in 0..(CtlCols - 1) :
            /\ InRange(layout, i, j)
            /\ layout[i + 1][j + 1] = FirstMatch(i, j, CtlRows, CtlCols, AppliedPattern)

\* a 1x1 grid after the preset with all four sides: its cell is the top-left corner
C1_Witness ==
    /\ AfterPreset
    /\ AppliedPattern = Pat(TRUE, TRUE, TRUE, TRUE)
    /\ CtlRows = 1 /\ CtlCols = 1
    /\ layout = << <<"TL">> >>

----------------------------------------------------------------------------
(* C2 *)

\* all rows of lay have the length of the first
Rectangular(lay) == \A i \in 1..Len(lay) : Len(lay[i]) = Len(lay[1])

\* every cell of lay is what the precedence list gives it for lay's own dimensions
AllCellsResolve(lay, p) ==
    \A i \in 0..(Len(lay) - 1) :
        \A j \in 0..(Len(lay[i + 1]) - 1) :
            lay[i + 1][j + 1] = FirstMatch(i, j, Len(lay), Len(lay[i + 1]), p)

\* C2: right after applyPattern(grid, pattern) every cell (row, col) of the grid holds
\* resolve(row, col, numRows, numCols, pattern), numRows and numCols being the numbers
\* of rows and columns the layout matrix actually has (stated for the rectangular
\* grids, where these numbers are defined).
C2_PresetResolvesOwnDims ==
    (AfterPreset /\ Rectangular(layout)) => AllCellsResolve(layout, AppliedPattern)

----------------------------------------------------------------------------
(* C3 *)

\* a resize with positive counts is the step taken
ResizeStep ==
    /\ lastOp' = "_on_shape_change"
    /\ IsIntText(rows') /\ IsIntText(cols')
    /\ IntVarGet(rows') >= 1 /\ IntVarGet(cols') >= 1

\* C3: resize(newRows, newCols) with newRows, newCols >= 1 yields a grid of exactly
\* newRows x newCols in which every cell (i, j) with i < oldRows and j < oldCols keeps
\* its previous token and every other cell is NORMAL (oldCols taken as the length of
\* the first row, as the code takes it; a cell is "previous" when it existed).
C3_ResizeKeepsOverlap ==
    [][ResizeStep =>
          LET r == IntVarGet(rows')
              c == IntVarGet(cols')
          IN  /\ Len(layout') = r
              /\ \A i \in 1..r : Len(layout'[i]) = c
              /\ \A i \in 1..r, j \in 1..c :
                    IF i <= Len(layout) /\ j <= Len(layout[1])
                    THEN j <= Len(layout[i]) => layout'[i][j] = layout[i][j]
                    ELSE layout'[i][j] = "O"]_vars

----------------------------------------------------------------------------
(* C4 *)

\* C4: when only positive integer counts are ever supplied (by the load, the controls,
\* earlier resizes and presets), resize completes without raising an error.
C4_ResizeNeverRaises == lastOp = "_on_shape_change" => outcome = "ok"

----------------------------------------------------------------------------
(* C5 *)

\* C5: the grid is rectangular in every reachable state: after any load, resize,
\* per-cell set and preset application all rows of the layout have the same length.
C5_AlwaysRectangular == pc = "ready" => Rectangular(layout)

----------------------------------------------------------------------------
(* C6 *)

\* C6: in every reachable state the grid has at least one row and at least one column.
C6_AtLeastOneByOne ==
    pc = "ready" => /\ Len(layout) >= 1
                    /\ \A i \in 1..Len(layout) : Len(layout[i]) >= 1

----------------------------------------------------------------------------
(* C7 *)

\* the length of every row
Shape(lay) == [i \in 1..Len(lay) |-> Len(lay[i])]

\* the shape sh extended, and only extended, to cover r rows of c cells
Covering(sh, r, c) ==
    IF c < 1 THEN sh
    ELSE [i \in 1..Max(Len(sh), r) |->
            IF i > Len(sh) THEN c
            ELSE IF i <= r THEN Max(sh[i], c)
            ELSE sh[i]]

Extenders == {"_apply_preset_to_all", "_populate_grid"}

----------------------------------------------------------------------------
(* C8 *)

CellOps == {"_apply_preset_to_selected", "_set_palette_choice", "_cycle_cell"}

\* the step is a per-cell handler working on a cell outside the layout
CellOpOutOfRange ==
    /\ lastOp' \in CellOps
    /\ lastCell' # <<>>
    /\ ~InRange(layout, lastCell'[1], lastCell'[2])

\* the cells the redisplay reads that are outside the layout
UnreadableCells ==
    {ij \in (0..(CtlRows - 1)) \X (0..(CtlCols - 1)) : ~InRange(layout, ij[1], ij[2])}

\* the step is a redisplay reading a cell outside the layout
RedisplayOutOfRange ==
    /\ lastOp' = "_populate_grid"
    /\ UnreadableCells # {}

GridUntouched == layout' = layout /\ canvases' = canvases

\* C8 as stated: a cell read or write outside the grid's current dimensions fails with
\* an out-of-range error that propagates to the caller, is never silently recovered,
\* and leaves every cell and the dimensions of the grid unchanged.
C8_OutOfRangeAlwaysRaises ==
    [][(CellOpOutOfRange \/ RedisplayOutOfRange)
          => (outcome' = "IndexError" /\ GridUntouched)]_vars

\* C8 amended: a cell read or write by a per-cell handler (_apply_preset_to_selected,
\* _set_palette_choice, _cycle_cell) outside the grid's current dimensions fails with an
\* IndexError that leaves the handler and leaves the grid unchanged; the out-of-range
\* read of the redisplay (_populate_grid) is caught instead, and the grid is extended
\* so that the cell exists and holds NORMAL.
C8_CellOpOutOfRangeRaises ==
    [][/\ CellOpOutOfRange => (outcome' = "IndexError" /\ GridUntouched)
       /\ RedisplayOutOfRange =>
            /\ outcome' = "ok"
            /\ \A ij \in UnreadableCells :
                  /\ InRange(layout', ij[1], ij[2])
                  /\ layout'[ij[1] + 1][ij[2] + 1] = "O"]_vars

\* the preset for the selected cell was applied to a remembered cell that the grid no
\* longer has, and the IndexError left the handler
C8_Witness ==
    /\ lastOp = "_apply_preset_to_selected"
    /\ lastCell # <<>>
    /\ ~InRange(layout, lastCell[1], lastCell[2])
    /\ outcome = "IndexError"

----------------------------------------------------------------------------
(* C9 *)

\* C9: applyPattern is atomic and total: it terminates without error, and when it
\* returns either every cell of the grid reflects the new pattern or no cell has
\* changed (stated for integer counts in the controls and a rectangular grid).
C9_PresetAtomicTotal ==
    [][(/\ lastOp' = "_apply_preset_to_all"
        /\ IsIntText(rows) /\ IsIntText(cols)
        /\ Rectangular(layout))
          => /\ outcome' = "ok"
             /\ \/ AllCellsResolve(layout', PresetPattern(lastArg'))
                \/ layout' = layout]_vars

----------------------------------------------------------------------------
(* C10 *)

\* C10: for all sizes and all 16 patterns every interior cell (0 < row < numRows-1 and
\* 0 < col < numCols-1) is assigned NORMAL by the border resolution.
C10_InteriorIsNormal ==
    AfterPreset =>
        \A i \in 0..(CtlRows - 1), j \in 0..(CtlCols - 1) :
            (0 < i /\ i < CtlRows - 1 /\ 0 < j /\ j < CtlCols - 1)
                => layout[i + 1][j + 1] = "O"

\* the preset with all four sides was applied to a grid of SKIP cells that has an
\* interior cell, and that cell is NORMAL now
C10_Witness ==
    /\ AfterPreset
    /\ AppliedPattern = Pat(TRUE, TRUE, TRUE, TRUE)
    /\ CtlRows >= 3 /\ CtlCols >= 3
    /\ layout[2][2] = "O"

----------------------------------------------------------------------------
(* C11 *)

\* C11: for every grid with numRows >= 2 and numCols >= 2 and every pattern, the cell
\* (0,0) gets TOP_LEFT_CORNER if and only if pattern.top and pattern.left are both set;
\* otherwise it gets TOP_EDGE if pattern.top, else LEFT_EDGE if pattern.left, else
\* NORMAL; the bottom and right flags do not influence it.
C11_CornerPrecedence ==
    (AfterPreset /\ CtlRows >= 2 /\ CtlCols >= 2) =>
        LET p == AppliedPattern
            cell == layout[1][1]
        IN  /\ (cell = "TL") <=> (p.top /\ p.left)
            /\ ~(p.top /\ p.left) =>
                  cell = (IF p.top THEN "T" ELSE IF p.left THEN "L" ELSE "O")

\* the preset with top, right and bottom but not left was applied to a grid of at
\* least 2 x 2: the cell (0,0) holds the top edge
C11_Witness ==
    /\ AfterPreset
    /\ CtlRows >= 2 /\ CtlCols >= 2
    /\ AppliedPattern = Pat(TRUE, TRUE, FALSE, TRUE)
    /\ layout[1][1] = "T"

----------------------------------------------------------------------------
(* C12 *)

CornerTokens == {"TL", "TR", "BL", "BR"}
EdgeTokens == {"T", "B", "L", "R"}

\* the bulk preset operation has just run on a grid of one row or of one column
AfterDegeneratePreset == AfterPreset /\ (CtlRows = 1 \/ CtlCols = 1)

\* the rules of the precedence list, among the rules ks, that match the cell (i, j)
Matching(ks, i, j) ==
    {k \in ks : Rules(i, j, CtlRows, CtlCols, AppliedPattern)[k].when}

\* the token of the first rule of the non-empty set hits
TokenOfFirst(hits, i, j) ==
    Rules(i, j, CtlRows, CtlCols, AppliedPattern)[CHOOSE k \in hits :
                                                      \A m \in hits : k <= m].token

\* C12 as stated: in a degenerate grid (numRows = 1 or numCols = 1), for every pattern
\* each cell receives exactly one token, and every cell that receives a bordered
\* (non-NORMAL) token receives it from one of the four corner rules.
C12_DegenerateViaCorners ==
    AfterDegeneratePreset =>
        \A i \in 0..(CtlRows - 1), j \in 0..(CtlCols - 1) :
            /\ layout[i + 1][j + 1] \in AbbrevSet
            /\ layout[i + 1][j + 1] # "O" => layout[i + 1][j + 1] \in CornerTokens

\* C12 amended: in a degenerate grid, for every pattern each cell receives exactly one
\* token: the token of the first matching corner rule when a corner rule matches it
\* (although edge rules match it too), the token of the first matching edge rule when
\* no corner rule but an edge rule matches it, and NORMAL when no rule matches.
C12_DegenerateCornersFirst ==
    AfterDegeneratePreset =>
        \A i \in 0..(CtlRows - 1), j \in 0..(CtlCols - 1) :
            LET cell == layout[i + 1][j + 1]
                corners == Matching(1..4, i, j)
                edges == Matching(5..8, i, j)
            IN  /\ corners # {} => cell = TokenOfFirst(corners, i, j)
                /\ (corners = {} /\ edges # {}) => cell = TokenOfFirst(edges, i, j)
                /\ (corners = {} /\ edges = {}) => cell = "O"

\* the preset with all four sides was applied to a grid of one row and at least three
\* columns: the first cell holds a corner, the second the top edge
C12_Witness ==
    /\ AfterDegeneratePreset
    /\ AppliedPattern = Pat(TRUE, TRUE, TRUE, TRUE)
    /\ CtlRows = 1 /\ CtlCols >= 3
    /\ layout[1][1] = "TL"
    /\ layout[1][2] = "T"

----------------------------------------------------------------------------
(* C13 *)

\* the closed set of style tokens: the abbreviations the editor knows, and the two
\* two-sided tokens LEFT_RIGHT_EDGES and TOP_BOTTOM_EDGES the design names besides
StyleTokens == AbbrevSet \cup {"LR", "TB"}

\* NORMAL, the four edges and the four corners
BorderTokens == {"O"} \cup EdgeTokens \cup CornerTokens

\* every cell of the matrix m is in the set tokens
CellsIn(m, tokens) ==
    \A i \in 1..Len(m) : \A j \in 1..Len(m[i]) : m[i][j] \in tokens

\* C13: in every reachable state every cell of the layout matrix, and so every token
\* gathered for export, is a member of the closed set of style tokens, after loading
\* any layout text and after any resize, per-cell set, cell cycling and preset
\* application; and the cells the bulk preset operation has just written hold
\* NORMAL, an edge token or a corner token.
C13_CellsAreStyleTokens ==
    pc = "ready" =>
        /\ CellsIn(layout, StyleTokens)
        /\ CellsIn(gather_layout(layout), StyleTokens)
        /\ AfterPreset =>
              \A i \in 0..(CtlRows - 1), j \in 0..(CtlCols - 1) :
                  layout[i + 1][j + 1] \in BorderTokens

----------------------------------------------------------------------------
(* C14 *)

\* the sides a token names
SidesOf(token) ==
    CASE token = "O"  -> {}
      [] token = "T"  -> {"top"}
      [] token = "B"  -> {"bottom"}
      [] token = "L"  -> {"left"}
      [] token = "R"  -> {"right"}
      [] token = "TL" -> {"top", "left"}
      [] token = "TR" -> {"top", "right"}
      [] token = "BL" -> {"bottom", "left"}
      [] token = "BR" -> {"bottom", "right"}
      [] OTHER        -> {"top", "bottom", "left", "right"}

\* the sides of a numRows x numCols grid the cell (i, j) lies on
SidesOn(i, j, numRows, numCols) ==
    {side \in {"top", "bottom", "left", "right"} :
        \/ side = "top" /\ i = 0
        \/ side = "bottom" /\ i = numRows - 1
        \/ side = "left" /\ j = 0
        \/ side = "right" /\ j = numCols - 1}

\* the sides the pattern p flags
Flagged(p) == {side \in DOMAIN p : p[side]}

\* C14: for every grid with numRows >= 2 and numCols >= 2, every cell and every
\* pattern, the set of sides named by the token the cell gets is exactly the set of
\* grid sides the cell lies on intersected with the sides the pattern flags: no
\* flagged side of a boundary cell is dropped, no unflagged side is added.
C14_TokenNamesFlaggedSides ==
    (AfterPreset /\ CtlRows >= 2 /\ CtlCols >= 2) =>
        \A i \in 0..(CtlRows - 1), j \in 0..(CtlCols - 1) :
            /\ layout[i + 1][j + 1] \in BorderTokens
            /\ SidesOf(layout[i + 1][j + 1]) =
                  SidesOn(i, j, CtlRows, CtlCols) \cap Flagged(AppliedPattern)

\* the preset top, left, right was applied to a grid of at least 3 x 3: the top-left
\* cell names both of its sides, the bottom-right cell only the flagged right side
C14_Witness ==
    /\ AfterPreset
    /\ CtlRows >= 3 /\ CtlCols >= 3
    /\ AppliedPattern = Pat(TRUE, FALSE, TRUE, TRUE)
    /\ layout[1][1] = "TL"
    /\ layout[CtlRows][CtlCols] = "R"

----------------------------------------------------------------------------
(* C15 *)

\* the matrix of the shape of lay with every cell holding token
Filled(lay, token) == [i \in 1..Len(lay) |-> [j \in 1..Len(lay[i]) |-> token]]

\* grids of the dimensions of lay with other contents: all cells SKIP, all cells
\* NORMAL, and lay with one cell replaced by SKIP (by NORMAL where it holds SKIP)
OtherContents(lay) ==
    {Filled(lay, "X"), Filled(lay, "O")} \cup
    {SetCell(lay, i - 1, j - 1, IF lay[i][j] = "X" THEN "O" ELSE "X") :
        <<i, j>> \in {ij \in (1..Len(lay)) \X (1..MaxDim) : ij[2] <= Len(lay[ij[1]])}}

\* C15: the grid the bulk preset operation produces depends only on the dimensions and
\* the pattern, never on the previous cell contents: applied to a grid of the same
\* dimensions with different contents (SKIP cells included) it yields the identical
\* grid, and applied a second time in a row it yields the grid of the first time
\* (stated for a rectangular grid and integer counts in the controls).
C15_PresetIgnoresContents ==
    [][(/\ lastOp' = "_apply_preset_to_all"
        /\ outcome' = "ok"
        /\ Rectangular(layout))
          => LET r == IntVarGet(rows)
                 c == IntVarGet(cols)
                 p == PresetPattern(lastArg')
             IN  /\ \A other \in OtherContents(layout) :
                        apply_preset_to_all(other, canvases, r, c, p).layout = layout'
                 /\ apply_preset_to_all(layout', canvases', r, c, p).layout = layout']_vars

----------------------------------------------------------------------------
(* C16 *)

\* C16: view and model stay consistent: in every state reached by row/column control
\* changes, resize, cell click plus palette choice, cell cycling and preset
\* application, the matrix of displayed cell widgets has the dimensions of the layout
\* matrix and each displayed cell shows the icon of the token the layout holds at its
\* position, so that the layout gathered for export is the grid that is displayed.
C16_ViewMatchesLayout ==
    pc = "ready" =>
        /\ Shape(canvases) = Shape(layout)
        /\ \A i \in 0..(Len(canvases) - 1), j \in 0..(MaxDim - 1) :
              (InRange(canvases, i, j) /\ InRange(layout, i, j))
                  => canvases[i + 1][j + 1] = layout[i + 1][j + 1]
        /\ gather_layout(layout) = canvases

====
